---- MODULE Spec2Model ----
(***************************************************************************)
(* Knight's tour solver (knights_tour.py): one process_handler task, the   *)
(* recursive solve it drives with an explicit call stack, the memoized     *)
(* getKnightMoves cache whose lists solve sorts in place, and the output   *)
(* file / console of the task (Spec, FairSpec, RerunSpec); and main with   *)
(* the processes it starts, their lock, terminal and files (MainSpec,      *)
(* FairMainSpec).                                                          *)
(***************************************************************************)
EXTENDS Integers, Sequences, FiniteSets, TLC

VARIABLES
    BOARD_SIZE,   \* the module constant BOARD_SIZE of the build under check
    start_point,  \* argument of process_handler
    board,        \* the task's board: cell -> string (sequence of characters)
    stack,        \* active solve frames, outermost first
    entry_board,  \* history: the board at the entry of the innermost active frame
    ret,          \* value returned by the solve call that just returned
    cache,        \* memoize's cache of getKnightMoves: cell -> list object
    calls,        \* history: <<cell, list as returned>> of the getKnightMoves calls of the latest sort
    first,        \* history: cell -> the list its first getKnightMoves call returned
    pc,           \* position of process_handler
    solutions,    \* the solutions directory: file name -> contents
    console,      \* lines printed by the task
    history,      \* history: the searches this process has finished before the current one
    main_pc,      \* position of main
    main_i,       \* index of main's current for loop
    processes,    \* main's list of processes, each named by its start cell
    task_pc,      \* start cell -> position of the process_handler of that process
    task_ret,     \* start cell -> what solve returned in that process
    lock,         \* multiprocessing.Lock: the set of its holders, empty when free
    stdout,       \* the terminal all processes print to: the lines printed so far
    files         \* the shared solutions directory: file name -> the processes that wrote it

\* the state of main and of the processes it starts
mainVars == <<main_pc, main_i, processes, task_pc, task_ret, lock, stdout, files>>

vars == <<BOARD_SIZE, start_point, board, stack, entry_board, ret, cache, calls, first, pc, solutions, console,
          history, main_pc, main_i, processes, task_pc, task_ret, lock, stdout, files>>

----------------------------------------------------------------------------
(* Bounds and the runs explored *)

\* every board of size 1..MaxSize is searched from every start cell
MaxSize == 3

\* the value of BOARD_SIZE in the source
SourceBoardSize == 8

Cells(n) == (0 .. n - 1) \X (0 .. n - 1)

\* larger boards whose searches are small enough to explore exhaustively:
\* 4x4 from every start, 5x5 from the cells of the corner's colour, 6x6 from
\* the cells of row 0, and the source's 8x8 board from (0,0)
AllStarts(n) == {<<n, p>> : p \in Cells(n)}

SelectedRuns ==
    UNION {AllStarts(4),
           {<<5, p>> : p \in {q \in Cells(5) : (q[1] + q[2]) % 2 = 0}},
           {<<6, p>> : p \in {q \in Cells(6) : q[1] = 0}},
           {<<SourceBoardSize, <<0, 0>>>>}}

Runs == UNION {AllStarts(n) : n \in 1 .. MaxSize} \cup SelectedRuns

----------------------------------------------------------------------------
(* Strings: a string is a sequence of one-character strings *)

DigitChars == <<"0", "1", "2", "3", "4", "5", "6", "7", "8", "9">>

RECURSIVE Pow10(_)
Pow10(k) == IF k = 0 THEN 1 ELSE 10 * Pow10(k - 1)

\* len(str(k)) for k >= 0
RECURSIVE StrLen(_)
StrLen(k) == IF k < 10 THEN 1 ELSE 1 + StrLen(k \div 10)

\* f"{step:0{width}d}": decimal, zero-padded on the left to at least width
FormatStep(step, width) ==
    LET w == IF StrLen(step) > width THEN StrLen(step) ELSE width
    IN  [i \in 1 .. w |-> DigitChars[((step \div Pow10(w - i)) % 10) + 1]]

FORMAT_SIZE == StrLen(BOARD_SIZE * BOARD_SIZE)

BLANK == [i \in 1 .. FORMAT_SIZE |-> "-"]

----------------------------------------------------------------------------
(* getNotationDicts / getChessNotation *)

\* chr(97) .. chr(122) and chr(65) .. chr(90)
Letters ==
    <<"a", "b", "c", "d", "e", "f", "g", "h", "i", "j", "k", "l", "m",
      "n", "o", "p", "q", "r", "s", "t", "u", "v", "w", "x", "y", "z",
      "A", "B", "C", "D", "E", "F", "G", "H", "I", "J", "K", "L", "M",
      "N", "O", "P", "Q", "R", "S", "T", "U", "V", "W", "X", "Y", "Z">>

\* int_to_abc[i] = chr(97+i) if i < 26 else chr(39+i), a string of one character
int_to_abc == [i \in 0 .. 51 |-> <<Letters[i + 1]>>]

\* str(k) for k >= 0
str(k) == FormatStep(k, 1)

\* rows_to_ranks[i] = str(size-i)
Rank(size, i) == str(size - i)

getNotationDicts(size) ==
    [rows_to_ranks    |-> [i \in 0 .. size - 1 |-> Rank(size, i)],
     columns_to_files |-> [i \in 0 .. size - 1 |-> int_to_abc[i]]]

\* variant of Concat: the file letter is dropped
ConcatRankOnly(file, rank) == rank
\* columns_to_files[point[1]] + rows_to_ranks[point[0]]
Concat(file, rank) == file \o rank

\* the name of the cell under the dictionaries d
NotationWith(d, point) == Concat(d.columns_to_files[point[2]], d.rows_to_ranks[point[1]])

getChessNotation(point) == NotationWith(getNotationDicts(BOARD_SIZE), point)

----------------------------------------------------------------------------
(* getKnightMoves and its memoize wrapper *)

knight_moves ==
    << <<-2, -1>>, <<-2, 1>>, <<-1, -2>>, <<-1, 2>>,
       <<1, -2>>, <<1, 2>>, <<2, -1>>, <<2, 1>> >>

\* variant of InBounds: upper limit off by one
InBoundsOff(p) ==
    /\ 0 <= p[1] /\ p[1] <= BOARD_SIZE
    /\ 0 <= p[2] /\ p[2] <= BOARD_SIZE

\* the test of line 62
InBounds(p) ==
    /\ 0 <= p[1] /\ p[1] <= BOARD_SIZE - 1
    /\ 0 <= p[2] /\ p[2] <= BOARD_SIZE - 1

\* body of getKnightMoves: the in-bounds destinations in offset order
valid_positions(point) ==
    SelectSeq([i \in 1 .. Len(knight_moves) |->
                  <<point[1] + knight_moves[i][1], point[2] + knight_moves[i][2]>>],
              InBounds)

\* memoize.wrapper, lines 18-20: the list returned for argument a under cache c
wrapper(c, a) == IF a \in DOMAIN c THEN c[a] ELSE valid_positions(a)

\* memoize.wrapper, lines 18-19: the cache after the calls with the arguments in args
memoize(c, args) == c @@ [a \in args \ DOMAIN c |-> valid_positions(a)]

\* variant of SortedIndex: elements with equal keys end up in reverse order
SortedIndexReversedTies(s, key, i) ==
    1 + Cardinality({j \in 1 .. Len(s) :
                        \/ key[s[j]] < key[s[i]]
                        \/ key[s[j]] = key[s[i]] /\ j > i})

\* list.sort(key=...): stable, ascending by key. The element at index i moves
\* behind every element with a smaller key and every earlier one with an equal key
SortedIndex(s, key, i) ==
    1 + Cardinality({j \in 1 .. Len(s) :
                        \/ key[s[j]] < key[s[i]]
                        \/ key[s[j]] = key[s[i]] /\ j < i})

\* variant of list_sort: the list is reversed before it is sorted
list_sort_reversing(s, key) ==
    LET r == [i \in 1 .. Len(s) |-> s[Len(s) + 1 - i]]
    IN  [p \in 1 .. Len(s) |-> r[CHOOSE i \in 1 .. Len(s) : SortedIndex(r, key, i) = p]]

list_sort(s, key) ==
    [p \in 1 .. Len(s) |-> s[CHOOSE i \in 1 .. Len(s) : SortedIndex(s, key, i) = p]]

----------------------------------------------------------------------------
(* The task *)

\* main is not part of the run: the task is looked at on its own
MainIdle ==
    /\ main_pc = "idle"
    /\ main_i = 0
    /\ processes = <<>>
    /\ task_pc = <<>>
    /\ task_ret = <<>>
    /\ lock = {}
    /\ stdout = <<>>
    /\ files = <<>>

Init ==
    /\ \E r \in Runs : BOARD_SIZE = r[1] /\ start_point = r[2]
    /\ board = <<>>
    /\ stack = <<>>
    /\ entry_board = <<>>
    /\ ret = "none"
    /\ cache = <<>>
    /\ calls = {}
    /\ first = <<>>
    /\ pc = "start"
    /\ solutions = <<>>
    /\ console = <<>>
    /\ history = <<>>
    /\ MainIdle

\* a solve frame: arguments, position, loop index, and (history) the cells
\* where the board at the entry of the calling frame differs from the board at
\* the entry of this one, with the values they had there
Frame(point, step, below) ==
    [point |-> point, step |-> step, at |-> "entry", idx |-> 1, below |-> below]


Top == stack[Len(stack)]
Pop == SubSeq(stack, 1, Len(stack) - 1)
SetTop(f) == [stack EXCEPT ![Len(stack)] = f]

\* history: the entry board of a frame that is called with board b
EntryDifference(b) ==
    [c \in {d \in DOMAIN b : b[d] # entry_board[d]} |-> entry_board[c]]

\* history: the entry board of the frame the innermost frame returns to
CallerEntry == Top.below @@ entry_board

\* variant of Mark: the board is left unmarked
MarkNoop(b, cell, step) == b
\* variant of Mark: row and column swapped
MarkTransposed(b, cell, step) ==
    [b EXCEPT ![<<cell[2], cell[1]>>] = FormatStep(step, FORMAT_SIZE)]
\* variant of Mark: the step written is one too high
MarkStepOff(b, cell, step) == [b EXCEPT ![cell] = FormatStep(step + 1, FORMAT_SIZE)]
\* board[r][c] = f"{step:0{FORMAT_SIZE}d}"
Mark(b, cell, step) == [b EXCEPT ![cell] = FormatStep(step, FORMAT_SIZE)]

\* variant of Clear: the mark is not undone
ClearNoop(b, cell) == b
\* board[r][c] = BLANK
Clear(b, cell) == [b EXCEPT ![cell] = BLANK]

\* variants of IsComplete: one step early, one step late
IsCompleteEarly(step) == step = BOARD_SIZE * BOARD_SIZE
IsCompleteLate(step) == step = (BOARD_SIZE * BOARD_SIZE) + 2
\* the test of line 98
IsComplete(step) == step = (BOARD_SIZE * BOARD_SIZE) + 1

\* variants of IsBlank: occupancy ignored, test inverted
IsBlankAlways(b, cell) == TRUE
IsBlankInverted(b, cell) == b[cell] # BLANK
\* the test of line 107
IsBlank(b, cell) == b[cell] = BLANK

\* variant of SolutionFound: the result is not looked at
SolutionFoundOrNot(r) == r \in {"true", "false"}
\* the test of line 75 on the value solve returned
SolutionFound(r) == r = "true"

\* variant of NextStep: the step is passed on unchanged
NextStepSame(step) == step
\* the argument step+1 of the calls of solve, lines 75 and 109
NextStep(step) == step + 1

\* variant of NextCandidate: the loop does not advance
NextCandidateStuck(i) == i
\* the for loop of line 106 advancing to the next element of the list
NextCandidate(i) == i + 1

\* process_handler, lines 68-75: blank board, mark the start, call solve
process_handler_start ==
    /\ pc = "start"
    /\ LET b == Mark([c \in Cells(BOARD_SIZE) |-> BLANK], start_point, 1)
       IN  /\ board' = b
           /\ entry_board' = b
           /\ stack' = <<Frame(start_point, NextStep(1), <<>>)>>
    /\ pc' = "solving"
    /\ UNCHANGED <<mainVars, history, BOARD_SIZE, start_point, ret, cache, calls, first, solutions, console>>

\* solve, lines 98-99: the base case returns True
solve_base ==
    /\ pc = "solving" /\ stack # <<>> /\ Top.at = "entry"
    /\ IsComplete(Top.step)
    /\ stack' = Pop
    /\ entry_board' = CallerEntry
    /\ ret' = "true"
    /\ UNCHANGED <<mainVars, history, BOARD_SIZE, start_point, board, cache, calls, first, pc, solutions, console>>

\* solve, lines 101-104: fetch the cached list and sort it in place; the key
\* calls getKnightMoves on every element, which caches their lists as well
solve_sort ==
    /\ pc = "solving" /\ stack # <<>> /\ Top.at = "entry"
    /\ ~IsComplete(Top.step)
    /\ LET point == Top.point
           moves == wrapper(cache, point)
           elems == {moves[j] : j \in 1 .. Len(moves)}
           c1    == memoize(cache, {point})
           key   == [i \in elems |-> Len(wrapper(c1, i))]
       IN  /\ cache' = [memoize(cache, {point} \cup elems) EXCEPT ![point] = list_sort(moves, key)]
           /\ calls' = {<<point, moves>>} \cup {<<i, wrapper(c1, i)>> : i \in elems}
           /\ first' = first @@ [a \in ({point} \cup elems) \ DOMAIN first |-> wrapper(c1, a)]
    /\ stack' = SetTop([Top EXCEPT !.at = "loop", !.idx = 1])
    /\ UNCHANGED <<mainVars, history, entry_board, BOARD_SIZE, start_point, board, ret, pc, solutions, console>>

\* solve, lines 106-109: next candidate; mark and recurse if it is blank
solve_try ==
    /\ pc = "solving" /\ stack # <<>> /\ Top.at = "loop"
    /\ Top.idx <= Len(cache[Top.point])
    /\ LET move == cache[Top.point][Top.idx]
       IN  IF IsBlank(board, move)
           THEN /\ board' = Mark(board, move, Top.step)
                /\ entry_board' = board'
                /\ stack' = Append(SetTop([Top EXCEPT !.at = "call"]),
                                   Frame(move, NextStep(Top.step), EntryDifference(board')))
           ELSE /\ board' = board
                /\ entry_board' = entry_board
                /\ stack' = SetTop([Top EXCEPT !.idx = NextCandidate(Top.idx)])
    /\ UNCHANGED <<mainVars, history, BOARD_SIZE, start_point, ret, cache, calls, first, pc, solutions, console>>

\* solve, line 112: the list is exhausted, return False
solve_exhausted ==
    /\ pc = "solving" /\ stack # <<>> /\ Top.at = "loop"
    /\ Top.idx > Len(cache[Top.point])
    /\ stack' = Pop
    /\ entry_board' = CallerEntry
    /\ ret' = "false"
    /\ UNCHANGED <<mainVars, history, BOARD_SIZE, start_point, board, cache, calls, first, pc, solutions, console>>

\* variant of solve_propagate: the mark is undone before True is returned
solve_propagate_undoing ==
    /\ pc = "solving" /\ stack # <<>> /\ Top.at = "call"
    /\ ret = "true"
    /\ board' = Clear(board, cache[Top.point][Top.idx])
    /\ stack' = Pop
    /\ entry_board' = CallerEntry
    /\ UNCHANGED <<mainVars, history, BOARD_SIZE, start_point, ret, cache, calls, first, pc, solutions, console>>

\* solve, lines 109-110: the recursive call returned True, return True
solve_propagate ==
    /\ pc = "solving" /\ stack # <<>> /\ Top.at = "call"
    /\ ret = "true"
    /\ stack' = Pop
    /\ entry_board' = CallerEntry
    /\ UNCHANGED <<mainVars, history, BOARD_SIZE, start_point, board, ret, cache, calls, first, pc, solutions, console>>

\* solve, lines 109, 111: the recursive call returned False, backtrack
solve_backtrack ==
    /\ pc = "solving" /\ stack # <<>> /\ Top.at = "call"
    /\ ret = "false"
    /\ board' = Clear(board, cache[Top.point][Top.idx])
    /\ stack' = SetTop([Top EXCEPT !.at = "loop", !.idx = NextCandidate(Top.idx)])
    /\ ret' = "none"
    /\ UNCHANGED <<mainVars, history, entry_board, BOARD_SIZE, start_point, cache, calls, first, pc, solutions, console>>

\* process_handler, lines 75-82: solve returned True, write the file
process_handler_write ==
    /\ pc = "solving" /\ stack = <<>> /\ ret # "none"
    /\ SolutionFound(ret)
    /\ solutions' = (getChessNotation(start_point) :>
                          [header |-> <<getChessNotation(start_point), BOARD_SIZE>>,
                           rows   |-> board]) @@ solutions
    /\ pc' = "written"
    /\ UNCHANGED <<mainVars, history, entry_board, BOARD_SIZE, start_point, board, stack, ret, cache, calls, first, console>>

\* process_handler, lines 83-85: solve returned False, print and return False
process_handler_fail ==
    /\ pc = "solving" /\ stack = <<>> /\ ret # "none"
    /\ ~SolutionFound(ret)
    /\ console' = Append(console, <<"Failed to find solution", getChessNotation(start_point)>>)
    /\ pc' = "done"
    /\ UNCHANGED <<mainVars, history, entry_board, BOARD_SIZE, start_point, board, stack, ret, cache, calls, first, solutions>>

\* process_handler, lines 87-90: print the timing line under the lock
process_handler_report ==
    /\ pc = "written"
    /\ console' = Append(console, <<"Process took", getChessNotation(start_point)>>)
    /\ pc' = "done"
    /\ UNCHANGED <<mainVars, history, entry_board, BOARD_SIZE, start_point, board, stack, ret, cache, calls, first, solutions>>

Next ==
    \/ process_handler_start
    \/ solve_base
    \/ solve_sort
    \/ solve_try
    \/ solve_exhausted
    \/ solve_propagate
    \/ solve_backtrack
    \/ process_handler_write
    \/ process_handler_fail
    \/ process_handler_report

Spec == Init /\ [][Next]_vars

----------------------------------------------------------------------------
(* A process that runs process_handler again: the cache outlives the search *)

\* the number of further searches a process runs after its first
MaxReruns == 2

\* the start of a further search: the start of the first search or the corner
RerunStarts == {(history \o <<[start |-> start_point]>>)[1].start, <<0, 0>>}

\* process_handler is called again in the process that has finished a search:
\* a fresh board, the cache of memoize as the earlier searches left it
process_handler_again ==
    /\ pc = "done" /\ Len(history) < MaxReruns
    /\ history' = Append(history, [start |-> start_point, ret |-> ret, board |-> board])
    /\ \E s \in RerunStarts : start_point' = s
    /\ board' = <<>>
    /\ stack' = <<>>
    /\ entry_board' = <<>>
    /\ ret' = "none"
    /\ pc' = "start"
    /\ UNCHANGED <<mainVars, BOARD_SIZE, cache, calls, first, solutions, console>>

NextRerun == Next \/ process_handler_again

\* the runs with reruns: the small boards, 4x4 and 6x6 from row 0, 5x5 as in Runs
RerunRuns == {r \in Runs : r[1] < SourceBoardSize /\ (r[1] \in {4, 6} => r[2][1] = 0)}

InitRerun == Init /\ <<BOARD_SIZE, start_point>> \in RerunRuns

RerunSpec == InitRerun /\ [][NextRerun]_vars

----------------------------------------------------------------------------
(* main and the processes it starts, one per start cell. The search of a    *)
(* process is the subject of the task above; here a process is followed    *)
(* through process_handler with the result of its search left open, so     *)
(* that every mix of successful and failed processes is covered.           *)

\* main runs on every board of size 1..MaxTaskSize
MaxTaskSize == 2

\* the state of the task looked at on its own, not used by main
taskVars == <<start_point, board, stack, entry_board, ret, cache, calls, first, pc, solutions, console, history>>

\* all_points, line 119: [(i, j) for j in range(BOARD_SIZE) for i in range(BOARD_SIZE)]
all_points ==
    [k \in 1 .. BOARD_SIZE * BOARD_SIZE |->
        <<(k - 1) % BOARD_SIZE, (k - 1) \div BOARD_SIZE>>]

InitMain ==
    /\ BOARD_SIZE \in 1 .. MaxTaskSize
    /\ start_point = <<0, 0>>
    /\ board = <<>> /\ stack = <<>> /\ entry_board = <<>> /\ ret = "none" /\ cache = <<>>
    /\ calls = {} /\ first = <<>> /\ pc = "start"
    /\ solutions = <<>> /\ console = <<>> /\ history = <<>>
    /\ main_pc = "create"
    /\ main_i = 0
    /\ processes = <<>>
    /\ task_pc = <<>>
    /\ task_ret = <<>>
    /\ lock = {}
    /\ stdout = <<>>
    /\ files = <<>>

\* main, lines 116-123: the lock, all_points, one Process per point
main_create ==
    /\ main_pc = "create"
    /\ lock' = {}
    /\ processes' = all_points
    /\ task_pc' = [k \in {all_points[i] : i \in 1 .. Len(all_points)} |-> "created"]
    /\ task_ret' = [k \in {all_points[i] : i \in 1 .. Len(all_points)} |-> "none"]
    /\ main_pc' = "start"
    /\ main_i' = 1
    /\ UNCHANGED <<taskVars, BOARD_SIZE, stdout, files>>

\* main, lines 125-126: process.start() for the next process of the list
main_start ==
    /\ main_pc = "start"
    /\ task_pc' = [task_pc EXCEPT ![processes[main_i]] = "running"]
    /\ IF main_i < Len(processes)
       THEN main_i' = main_i + 1 /\ main_pc' = main_pc
       ELSE main_i' = 1 /\ main_pc' = "join"
    /\ UNCHANGED <<taskVars, BOARD_SIZE, processes, task_ret, lock, stdout, files>>

\* main, lines 128-129: process.join() returns once that process has ended
main_join ==
    /\ main_pc = "join"
    /\ task_pc[processes[main_i]] = "done"
    /\ IF main_i < Len(processes)
       THEN main_i' = main_i + 1 /\ main_pc' = main_pc
       ELSE main_i' = main_i /\ main_pc' = "report"
    /\ UNCHANGED <<taskVars, BOARD_SIZE, processes, task_pc, task_ret, lock, stdout, files>>

\* main, lines 131-133: print the final completion time and return
main_report ==
    /\ main_pc = "report"
    /\ stdout' = Append(stdout, <<"Final completion time">>)
    /\ main_pc' = "done"
    /\ UNCHANGED <<taskVars, BOARD_SIZE, main_i, processes, task_pc, task_ret, lock, files>>

\* process_handler, lines 68-75, in the process of start cell p: solve returns
\* True at once when step+1 is already N*N+1 (line 98); otherwise the search
\* runs and returns True or False
task_solve(p) ==
    /\ task_pc[p] = "running"
    /\ \E r \in (IF IsComplete(NextStep(1)) THEN {"true"} ELSE {"true", "false"}) :
           task_ret' = [task_ret EXCEPT ![p] = r]
    /\ task_pc' = [task_pc EXCEPT ![p] = "solved"]
    /\ UNCHANGED <<taskVars, BOARD_SIZE, main_pc, main_i, processes, lock, stdout, files>>

\* process_handler, lines 75-82: write the file named after the start cell
task_write(p) ==
    /\ task_pc[p] = "solved" /\ SolutionFound(task_ret[p])
    /\ LET name == getChessNotation(p)
       IN  files' = (name :> ((IF name \in DOMAIN files THEN files[name] ELSE {}) \cup {p})) @@ files
    /\ task_pc' = [task_pc EXCEPT ![p] = "written"]
    /\ UNCHANGED <<taskVars, BOARD_SIZE, main_pc, main_i, processes, task_ret, lock, stdout>>

\* process_handler, line 84: the print of the failure notice begins
task_fail_print(p) ==
    /\ task_pc[p] = "solved" /\ ~SolutionFound(task_ret[p])
    /\ task_pc' = [task_pc EXCEPT ![p] = "printing_failure"]
    /\ UNCHANGED <<taskVars, BOARD_SIZE, main_pc, main_i, processes, task_ret, lock, stdout, files>>

\* process_handler, lines 84-85: the notice is on the terminal, return False
task_fail_return(p) ==
    /\ task_pc[p] = "printing_failure"
    /\ stdout' = Append(stdout, <<"Failed to find solution", getChessNotation(p)>>)
    /\ task_pc' = [task_pc EXCEPT ![p] = "done"]
    /\ UNCHANGED <<taskVars, BOARD_SIZE, main_pc, main_i, processes, task_ret, lock, files>>

\* process_handler, lines 89-90: with lock, entered once the lock is free; the
\* print of the timing line begins
task_acquire(p) ==
    /\ task_pc[p] = "written"
    /\ lock = {}
    /\ lock' = {p}
    /\ task_pc' = [task_pc EXCEPT ![p] = "printing_time"]
    /\ UNCHANGED <<taskVars, BOARD_SIZE, main_pc, main_i, processes, task_ret, stdout, files>>

\* variant of task_release: the lock is kept when the process ends
task_release_keeping(p) ==
    /\ task_pc[p] = "printing_time"
    /\ stdout' = Append(stdout, <<"Process took", getChessNotation(p)>>)
    /\ task_pc' = [task_pc EXCEPT ![p] = "done"]
    /\ UNCHANGED <<taskVars, BOARD_SIZE, main_pc, main_i, processes, task_ret, lock, files>>

\* process_handler, lines 89-90: the line is on the terminal, the with block
\* releases the lock and the process ends
task_release(p) ==
    /\ task_pc[p] = "printing_time"
    /\ stdout' = Append(stdout, <<"Process took", getChessNotation(p)>>)
    /\ lock' = lock \ {p}
    /\ task_pc' = [task_pc EXCEPT ![p] = "done"]
    /\ UNCHANGED <<taskVars, BOARD_SIZE, main_pc, main_i, processes, task_ret, files>>

\* the steps of main
main == main_create \/ main_start \/ main_join \/ main_report

\* the steps of the process main starts for cell p
process(p) ==
    /\ p \in DOMAIN task_pc
    /\ \/ task_solve(p)
       \/ task_write(p)
       \/ task_fail_print(p)
       \/ task_fail_return(p)
       \/ task_acquire(p)
       \/ task_release(p)

NextMain ==
    \/ main_create
    \/ main_start
    \/ main_join
    \/ main_report
    \/ \E p \in DOMAIN task_pc : task_solve(p)
    \/ \E p \in DOMAIN task_pc : task_write(p)
    \/ \E p \in DOMAIN task_pc : task_fail_print(p)
    \/ \E p \in DOMAIN task_pc : task_fail_return(p)
    \/ \E p \in DOMAIN task_pc : task_acquire(p)
    \/ \E p \in DOMAIN task_pc : task_release(p)

MainSpec == InitMain /\ [][NextMain]_vars

\* main and every process it has started keep running
FairMainSpec ==
    /\ InitMain /\ [][NextMain]_vars
    /\ WF_vars(main)
    /\ \A p \in Cells(MaxTaskSize) : WF_vars(process(p))

\* the runs of the liveness check: every run but the long 8x8 one
FairRuns == {r \in Runs : r[1] < SourceBoardSize}

InitFair == Init /\ <<BOARD_SIZE, start_point>> \in FairRuns

\* the task is a running process: it keeps taking steps until it returns
FairSpec == InitFair /\ [][Next]_vars /\ WF_vars(Next)

----------------------------------------------------------------------------
(* Vocabulary of the properties, independent of the solver's own helpers *)

DigitSet == {DigitChars[i] : i \in 1 .. 10}

DigitValue == [ch \in DigitSet |-> CHOOSE d \in 0 .. 9 : DigitChars[d + 1] = ch]

IsNumeral(s) == Len(s) > 0 /\ \A i \in 1 .. Len(s) : s[i] \in DigitSet

\* the number the first n characters of the numeral s denote
RECURSIVE ValueUpTo(_, _)
ValueUpTo(s, n) == IF n = 0 THEN 0 ELSE 10 * ValueUpTo(s, n - 1) + DigitValue[s[n]]

Value(s) == ValueUpTo(s, Len(s))

Unvisited(b, c) == \A i \in 1 .. Len(b[c]) : b[c][i] = "-"

\* the step number a cell holds, 0 for a cell that holds none
StepAt(b, c) == IF IsNumeral(b[c]) THEN Value(b[c]) ELSE 0

Abs(x) == IF x < 0 THEN -x ELSE x

\* two cells one knight move apart
KnightStep(a, b) == {Abs(a[1] - b[1]), Abs(a[2] - b[2])} = {1, 2}

AllCells == Cells(BOARD_SIZE)

VisitedCells(b) == {c \in DOMAIN b : ~Unvisited(b, c)}

\* the eight offsets of a knight move
KnightOffsets == {o \in {-2, -1, 1, 2} \X {-2, -1, 1, 2} : Abs(o[1]) # Abs(o[2])}

\* b holds the steps 1..m, each on one cell, as a knight path from s
IsPath(b, m, s) ==
    LET vis   == VisitedCells(b)
        steps == {<<c, StepAt(b, c)>> : c \in vis}
    IN  /\ DOMAIN b = AllCells
        /\ Cardinality(vis) = m
        /\ {cs[2] : cs \in steps} = 1 .. m
        /\ <<s, 1>> \in steps
        /\ \A cs \in steps : cs[2] > 1 =>
               \E o \in KnightOffsets :
                   <<<<cs[1][1] + o[1], cs[1][2] + o[2]>>, cs[2] - 1>> \in steps

\* the top-level solve call has returned to process_handler
Returned == pc # "start" /\ stack = <<>> /\ ret # "none"
ReturnedTrue == Returned /\ ret = "true"
ReturnedFalse == Returned /\ ret = "false"

\* the board process_handler hands to solve: blank but for step 1 at the start
HandedBoard == [c \in AllCells |-> IF c = start_point THEN FormatStep(1, FORMAT_SIZE) ELSE BLANK]

\* an open tour from cell exists that extends the visited set: plain depth-first
\* search over the knight graph, candidates in no particular order
RECURSIVE CanComplete(_, _, _)
CanComplete(n, visited, cell) ==
    IF Cardinality(visited) = n * n THEN TRUE
    ELSE \E c \in Cells(n) \ visited : KnightStep(cell, c) /\ CanComplete(n, visited \cup {c}, c)

TourExists(n, s) == CanComplete(n, {s}, s)

----------------------------------------------------------------------------
(* Properties *)

\* C1: when the search started by process_handler returns success, the board
\* holds every step 1..N*N on exactly one cell, no cell is unvisited, the start
\* holds step 1 and consecutive steps are a knight move apart.
C1_SuccessIsTour ==
    ReturnedTrue => IsPath(board, BOARD_SIZE * BOARD_SIZE, start_point)

C1_Witness == ReturnedTrue /\ BOARD_SIZE = 6 /\ start_point = <<0, 3>>

\* C2: the result of the top-level solve equals the existence of an open
\* tour from the start: failure only when the plain depth-first search over
\* the knight graph finds none, success only with a tour on the board.
C2_Complete ==
    /\ ReturnedFalse => ~TourExists(BOARD_SIZE, start_point)
    /\ ReturnedTrue => /\ IsPath(board, BOARD_SIZE * BOARD_SIZE, start_point)
                       /\ VisitedCells(board) = AllCells

C2_Witness == ReturnedFalse /\ BOARD_SIZE = 4 /\ start_point = <<1, 2>>

\* the innermost solve call has exhausted its candidates and returns False next
AtReturnFalse ==
    /\ pc = "solving" /\ stack # <<>> /\ Top.at = "loop"
    /\ Top.idx > Len(cache[Top.point])

\* C3: whenever a solve call returns failure the board equals the board at the
\* entry of that call, and after the top-level call has returned failure the
\* board is the one handed to solve.
C3_FailureRestoresBoard ==
    /\ AtReturnFalse => board = entry_board
    /\ ReturnedFalse => board = HandedBoard

C3_Witness ==
    /\ AtReturnFalse /\ Len(stack) = 3 /\ BOARD_SIZE = 4
    /\ stack[1].idx > 1

\* C4: the top-level solve call eventually returns, with success or failure,
\* and the task finishes.
C4_Terminates == <>(pc = "done" /\ Returned)

C4_Witness == pc = "done" /\ Returned /\ BOARD_SIZE = 5 /\ start_point = <<0, 0>>

MaxStep(b) == Cardinality(VisitedCells(b))

\* the visited cells are a knight path from the start numbered 1..m
PathInv == pc # "start" => IsPath(board, MaxStep(board), start_point)

\* a step changes a cell only by marking an unvisited cell with the next step
\* or by clearing the cell that holds the highest step
MarkClearDiscipline ==
    pc # "start" =>
        \A c \in AllCells :
            board'[c] # board[c] =>
                \/ Unvisited(board, c) /\ StepAt(board', c) = MaxStep(board) + 1
                \/ Unvisited(board', c) /\ StepAt(board, c) = MaxStep(board)

\* C5: during a search the visited cells carry exactly the steps 1..m, each
\* once, from the start cell along knight moves; a step of solve marks only an
\* unvisited cell and clears only the cell holding the highest step.
C5_PathInvariant == []PathInv /\ [][MarkClearDiscipline]_vars

C5_Witness ==
    /\ pc = "solving" /\ stack # <<>> /\ Top.at = "loop" /\ Top.idx = 3
    /\ BOARD_SIZE = 6 /\ MaxStep(board) = 20

\* C6: a file is written for the start cell exactly when its search returned
\* success, after the search has ended and with the complete board; a failed
\* search leaves the directory empty and prints only the failure notice.
C6_ArtifactIffSuccess ==
    /\ DOMAIN solutions # {} =>
           /\ ReturnedTrue
           /\ DOMAIN solutions = {getChessNotation(start_point)}
           /\ solutions[getChessNotation(start_point)].rows = board
           /\ VisitedCells(board) = AllCells
    /\ pc \in {"written", "done"} => (DOMAIN solutions # {} <=> ret = "true")
    /\ ReturnedFalse => DOMAIN solutions = {}
    /\ pc = "done" /\ ret = "false" =>
           console = << <<"Failed to find solution", getChessNotation(start_point)>> >>

C6_Witness == pc = "done" /\ DOMAIN solutions # {} /\ BOARD_SIZE = 5

\* C7: on the 3x3 board the search fails from every start cell and no file
\* is written.
C7_NoTourOn3x3 ==
    BOARD_SIZE = 3 => (Returned => ret = "false") /\ DOMAIN solutions = {}

C7_Witness == BOARD_SIZE = 3 /\ pc = "done" /\ start_point = <<2, 1>>

\* C8: on the 8x8 board from (0,0) the search returns success with step 1 at
\* (0,0), 64 distinct step values and no unvisited cell.
C8_Tour8x8 ==
    BOARD_SIZE = SourceBoardSize /\ start_point = <<0, 0>> /\ Returned =>
        /\ ret = "true"
        /\ StepAt(board, <<0, 0>>) = 1
        /\ Cardinality({StepAt(board, c) : c \in AllCells}) = SourceBoardSize * SourceBoardSize
        /\ \A c \in AllCells : ~Unvisited(board, c)

C8_Witness == BOARD_SIZE = SourceBoardSize /\ start_point = <<0, 0>> /\ pc = "done"

\* the in-bounds cells one knight move from p
Destinations(p) ==
    {d \in {<<p[1] + o[1], p[2] + o[2]>> : o \in KnightOffsets} : d \in AllCells}

ExactMoves(p, l) ==
    /\ {l[i] : i \in 1 .. Len(l)} = Destinations(p)
    /\ Len(l) = Cardinality({l[i] : i \in 1 .. Len(l)})
    /\ Len(l) <= 8

\* C9: getKnightMoves returns, for every cell, exactly the in-bounds cells one
\* knight move away, each once and at most 8 of them, and the candidate solve
\* indexes the board with lies on the board.
C9_MovesInBounds ==
    /\ \A call \in calls : \A i \in 1 .. Len(call[2]) : call[2][i] \in AllCells
    /\ \A call \in calls : call[1] \in AllCells /\ ExactMoves(call[1], call[2])
    /\ \A k \in 1 .. Len(stack) :
           /\ stack[k].point \in AllCells
           /\ stack[k].at # "entry" /\ stack[k].idx <= Len(cache[stack[k].point]) =>
                  cache[stack[k].point][stack[k].idx] \in AllCells

C9_Witness ==
    /\ BOARD_SIZE = 6 /\ DOMAIN first = AllCells
    /\ \E call \in calls : Len(call[2]) = 8
    /\ \E call \in calls : Len(call[2]) = 2

\* C10: any two calls of getKnightMoves with the same cell return the same
\* sequence of cells, in the same order: every call returns what the first
\* call with that cell returned.
C10_Pure == \A call \in calls : call[2] = first[call[1]]

\* the number of in-bounds cells one knight move from c
Degree(c) == Cardinality(Destinations(c))

\* the offsets of line 58 are listed in ascending order of (row, column), so
\* the destinations of one cell are generated in ascending order of (row, column)
GeneratedBefore(a, b) == a[1] < b[1] \/ (a[1] = b[1] /\ a[2] < b[2])

\* a is tried before b: fewer onward moves, ties in generation order
TriedBefore(a, b) ==
    \/ Degree(a) < Degree(b)
    \/ Degree(a) = Degree(b) /\ GeneratedBefore(a, b)

WarnsdorffOrdered(p, l) ==
    /\ ExactMoves(p, l)
    /\ \A i \in 1 .. Len(l) : \A j \in 1 .. Len(l) : i < j => TriedBefore(l[i], l[j])

\* the innermost frame has sorted its list and reads its candidates from it
InLoop == pc = "solving" /\ stack # <<>> /\ Top.at # "entry"

\* C11: in every solve frame the list the candidates are read from is a
\* permutation of the in-bounds destinations of the frame's cell, ascending
\* by each candidate's own number of in-bounds destinations, ties in the
\* generation order of the offsets; also when the list had been sorted before.
C11_WarnsdorffOrder == InLoop => WarnsdorffOrdered(Top.point, cache[Top.point])

\* the frame's sort was handed a list that an earlier frame had reordered
C11_Witness ==
    /\ InLoop /\ Top.at = "loop" /\ Top.idx = 1
    /\ \E call \in calls :
           /\ call[1] = Top.point
           /\ call[2] # first[Top.point]
           /\ call[2] = cache[Top.point]
    /\ \E i \in 1 .. Len(cache[Top.point]) - 1 :
           Degree(cache[Top.point][i]) = Degree(cache[Top.point][i + 1])

\* solve has just been entered with step = N*N + 1
AtBaseEntry ==
    /\ pc = "solving" /\ stack # <<>> /\ Top.at = "entry"
    /\ Top.step = BOARD_SIZE * BOARD_SIZE + 1

\* a solve call has returned True and a caller is still active
SuccessReturning == pc = "solving" /\ stack # <<>> /\ ret = "true"

\* the step returns from the innermost frame and touches nothing else
OnlyReturnsTrue == board' = board /\ stack' = Pop /\ ret' = "true" /\ cache' = cache

\* C15: when solve is entered with step N*N + 1 no cell is unvisited and the
\* call returns True leaving the board as it is; from then until the top-level
\* call has returned True every step only returns True from the innermost
\* frame: the board is not modified and no candidate is tried.
C15_BaseCase ==
    /\ [](AtBaseEntry => \A c \in AllCells : ~Unvisited(board, c))
    /\ [][(AtBaseEntry \/ SuccessReturning) => OnlyReturnsTrue]_vars

C15_Witness == SuccessReturning /\ BOARD_SIZE = 6 /\ Len(stack) = 17 /\ Top.idx > 1

\* the innermost frame is at its entry or at the head of its loop
AtEntryOrLoopHead == pc = "solving" /\ stack # <<>> /\ Top.at \in {"entry", "loop"}

\* C16: at the entry of a solve frame, and whenever the innermost frame is at
\* the head of its loop, the frame's cell holds the highest step on the
\* board, that step is the frame's step - 1, and step - 1 cells are visited.
C16_StateFromBoard ==
    AtEntryOrLoopHead =>
        /\ StepAt(board, Top.point) = Top.step - 1
        /\ \A c \in AllCells : StepAt(board, c) <= Top.step - 1
        /\ Cardinality(VisitedCells(board)) = Top.step - 1

C16_Witness ==
    /\ AtEntryOrLoopHead /\ Top.at = "loop" /\ Top.idx = 2
    /\ BOARD_SIZE = 5 /\ Top.step = 12 /\ stack[3].idx > 1

\* C17: at most N*N solve frames are active at once, and the steps of the
\* active frames are consecutive integers from the step of the top-level frame.
C17_DepthBound ==
    /\ Len(stack) <= BOARD_SIZE * BOARD_SIZE
    /\ \A k \in 1 .. Len(stack) : stack[k].step = stack[1].step + (k - 1)

C17_Witness ==
    /\ BOARD_SIZE = 6 /\ start_point = <<0, 4>>
    /\ Len(stack) = BOARD_SIZE * BOARD_SIZE
    /\ Top.step = stack[1].step + 35

\* process_handler has just called solve
AtTopCall == pc = "solving" /\ Len(stack) = 1 /\ Top.at = "entry"

\* C18 as stated: at the top-level call of solve every cell is unvisited and
\* the step argument is 1.
C18_BlankAtTopCall ==
    AtTopCall => (\A c \in AllCells : Unvisited(board, c)) /\ Top.step = 1

\* C18 amended: at the top-level call of solve the start cell holds step 1,
\* every other cell is unvisited, the frame's cell is the start cell and the
\* step argument is 2.
C18_StartMarkedAtTopCall ==
    AtTopCall =>
        /\ DOMAIN board = AllCells
        /\ \A c \in AllCells :
               IF c = start_point THEN StepAt(board, c) = 1 ELSE Unvisited(board, c)
        /\ Top.point = start_point
        /\ Top.step = 2

C18_Witness == AtTopCall /\ BOARD_SIZE = SourceBoardSize

\* the cells of the active frames are pairwise distinct
FramePointsDistinct == Cardinality({stack[k].point : k \in 1 .. Len(stack)}) = Len(stack)

\* a frame waiting in a call has called solve on the candidate its index points at
CalleeIsCandidate ==
    \A k \in 1 .. Len(stack) - 1 :
        /\ stack[k].at = "call"
        /\ stack[k].idx <= Len(cache[stack[k].point])
        /\ cache[stack[k].point][stack[k].idx] = stack[k + 1].point

\* a step leaves the list of every frame that is iterating as it is, leaves
\* the frames below the innermost one alone, and advances the innermost
\* frame's index by one exactly past a candidate that was occupied or whose
\* call returned False
IterationUndisturbed ==
    \A k \in 1 .. Len(stack) :
        k <= Len(stack') /\ stack[k].at # "entry" =>
            /\ cache'[stack[k].point] = cache[stack[k].point]
            /\ k < Len(stack) => stack'[k] = stack[k]
            /\ stack'[k].point = stack[k].point
            /\ \/ stack'[k].idx = stack[k].idx
               \/ /\ stack'[k].idx = stack[k].idx + 1
                  /\ \/ stack[k].at = "loop" /\ ~Unvisited(board, cache[stack[k].point][stack[k].idx])
                     \/ stack[k].at = "call" /\ ret = "false"

\* C19: the cells of the active solve frames are pairwise distinct, the sort
\* of a deeper frame never changes the list a frame above it is iterating,
\* and no frame skips or repeats a candidate.
C19_AliasingSafe ==
    /\ [](FramePointsDistinct /\ CalleeIsCandidate)
    /\ [][IterationUndisturbed]_vars

\* a deep frame has just reordered its list while ten frames above it iterate
C19_Witness ==
    /\ pc = "solving" /\ Len(stack) > 10 /\ Top.at = "loop" /\ Top.idx = 1
    /\ cache[Top.point] # first[Top.point]
    /\ BOARD_SIZE = SourceBoardSize

\* C20: a search from a start cell ends with the same result and the same
\* board as every earlier search of the process from that start, the first
\* of which ran on the empty cache and the later ones on the cache the
\* searches before them had filled and sorted.
C20_CacheHistoryIrrelevant ==
    Returned =>
        \A i \in 1 .. Len(history) :
            history[i].start = start_point =>
                history[i].ret = ret /\ history[i].board = board

\* a successful third search, after a search from another start
C20_Witness ==
    /\ Returned /\ ret = "true" /\ Len(history) = 2
    /\ history[1].start = start_point /\ history[2].start # start_point
    /\ \E c \in DOMAIN cache : cache[c] # first[c]

\* the process of cell p is printing a status line
Emitting(p) == task_pc[p] \in {"printing_failure", "printing_time"}

\* C12: at most one process at a time is printing a status line, and a
\* process that is printing its timing line or its failure notice holds the lock.
C12_StatusUnderLock ==
    /\ Cardinality({p \in DOMAIN task_pc : Emitting(p)}) <= 1
    /\ \A p \in DOMAIN task_pc : Emitting(p) => p \in lock

\* the cells the processes of main's list were created for
Launched == {processes[k] : k \in 1 .. Len(processes)}

\* the names getChessNotation gives the cells of a board of the given size are distinct
NamesDistinct(size) ==
    LET d == getNotationDicts(size)
    IN  Cardinality({NotationWith(d, p) : p \in Cells(size)}) = size * size

\* names are compared on the boards up to this size (ranks of two digits included)
MaxNotationSize == 11

NamesDistinctOnAllBoards == \A n \in 1 .. MaxNotationSize : NamesDistinct(n)

\* C13: main launches one process per start cell, each cell once; distinct
\* cells have distinct file names; every file has been written by one
\* process only, the one of the cell it is named after.
C13_DistinctFiles ==
    /\ main_pc # "create" =>
           /\ Len(processes) = BOARD_SIZE * BOARD_SIZE
           /\ Launched = AllCells
           /\ Cardinality(Launched) = Len(processes)
           /\ DOMAIN task_pc = AllCells
    /\ NamesDistinct(BOARD_SIZE)
    /\ NamesDistinctOnAllBoards
    /\ \A name \in DOMAIN files :
           /\ Cardinality(files[name]) = 1
           /\ \A p \in files[name] : name = getChessNotation(p)

\* every process of the 2x2 board has written its file
C13_Witness ==
    /\ BOARD_SIZE = 2 /\ Cardinality(DOMAIN files) = 4
    /\ \E p \in DOMAIN task_pc : task_pc[p] = "written"
    /\ \E p \in DOMAIN task_pc : task_pc[p] = "done"

\* main has printed the final completion time
CompletionReported ==
    \E k \in 1 .. Len(stdout) : stdout[k] = <<"Final completion time">>

AllTasksDone == DOMAIN task_pc # {} /\ \A p \in DOMAIN task_pc : task_pc[p] = "done"

\* the process of cell p exists and is at the given position
TaskAt(p, where) == p \in DOMAIN task_pc /\ task_pc[p] = where

\* C14: main eventually reports completion and returns, whatever the results
\* of the processes; the report is printed only when every process has
\* ended; a process that holds the lock eventually releases it, and a
\* process that waits for the lock eventually ends.
C14_Completion ==
    /\ <>(main_pc = "done" /\ CompletionReported)
    /\ [](CompletionReported => AllTasksDone)
    /\ \A p \in Cells(MaxTaskSize) : (p \in lock) ~> (p \notin lock)
    /\ \A p \in Cells(MaxTaskSize) : TaskAt(p, "written") ~> TaskAt(p, "done")

\* main has returned after processes that failed and processes that succeeded
C14_Witness ==
    /\ main_pc = "done" /\ BOARD_SIZE = 2
    /\ \E p \in DOMAIN task_ret : task_ret[p] = "false"
    /\ Cardinality({p \in DOMAIN task_ret : task_ret[p] = "true"}) >= 2
====
